---------------------------- MODULE Spec2Model ----------------------------
(***************************************************************************)
(* Model of src/src/main.rs: a Bevy application that registers one         *)
(* Startup system, `setup`, which adds a 10 x 10 plane to Assets<Mesh>,    *)
(* a CustomMaterial to Assets<CustomMaterial>, and queues two spawn        *)
(* commands (the mesh entity and the camera).  The host engine applies the *)
(* queued commands, then runs its frame loop, refreshing the global time   *)
(* uniform every frame, and asks the material type for its fragment        *)
(* shader.                                                                 *)
(*                                                                         *)
(* Lengths and coordinates are fixed-point integers in tenths of a unit    *)
(* (0.5 is 5, 2.5 is 25, 10.0 is 100).  Directions are integer vectors     *)
(* reduced by the gcd of their coordinates, so that two vectors denote     *)
(* the same direction exactly when they are equal.                         *)
(***************************************************************************)
EXTENDS Integers, Sequences, FiniteSets, TLC

VARIABLES
    phase,         \* position of main: "new", "plugins", "systems", "startup", "update"
    plugins,       \* plugin groups added to the App
    schedules,     \* schedule label -> sequence of registered systems
    meshes,        \* Assets<Mesh>: handle index -> geometry
    materials,     \* Assets<CustomMaterial>: handle index -> descriptor
    commands,      \* Commands: queued spawn commands, not yet applied
    world,         \* entity id -> components, the applied entities
    insertedBy,    \* history: which setup invocation inserted each record
    setupRuns,     \* history: number of completed setup invocations
    frame,         \* frames rendered by the host loop
    elapsed,       \* the global time uniform (ticks since startup)
    shaderQueries  \* results returned by fragment_shader() so far

vars == <<phase, plugins, schedules, meshes, materials, commands, world,
          insertedBy, setupRuns, frame, elapsed, shaderQueries>>

storeVars == <<meshes, materials, commands, world, insertedBy, setupRuns>>

\* Bounds of the model.
MaxFrames == 3
MaxDelta == 2
MaxQueries == 2
MaxSetups == 3

-----------------------------------------------------------------------------
(* Vector helpers (glam Vec3 on integer coordinates).                      *)

Abs(n) == IF n < 0 THEN -n ELSE n

RECURSIVE GCD(_, _)
GCD(a, b) == IF b = 0 THEN a ELSE GCD(b, a % b)

Vec3_ZERO == <<0, 0, 0>>
Vec3_Y == <<0, 1, 0>>

Neg(v) == <<-v[1], -v[2], -v[3]>>
Sub(a, b) == <<a[1] - b[1], a[2] - b[2], a[3] - b[3]>>
Dot(a, b) == a[1] * b[1] + a[2] * b[2] + a[3] * b[3]
Cross(a, b) == <<a[2] * b[3] - a[3] * b[2],
                 a[3] * b[1] - a[1] * b[3],
                 a[1] * b[2] - a[2] * b[1]>>

\* Vec3::try_normalize: the direction of v, or <<>> (None) for the zero vector.
TryNormalize(v) ==
    LET g == GCD(GCD(Abs(v[1]), Abs(v[2])), Abs(v[3]))
    IN  IF g = 0 THEN <<>> ELSE <<v[1] \div g, v[2] \div g, v[3] \div g>>

\* Vec3::any_orthonormal_vector for an axis-aligned unit vector v (the only
\* `up` arguments this program passes): glam returns
\* (x*y*a, sign + y*y*a, -y) with sign = copysign(1, z), a = -1/(sign + z).
AnyOrthonormal(v) ==
    LET sign == IF v[3] >= 0 THEN 1 ELSE -1
    IN  <<0, sign - v[2] * v[2], -v[2]>>

-----------------------------------------------------------------------------
(* Transform (bevy_transform): translation, rotation, scale.  The rotation *)
(* is kept as the rotation matrix's columns: the directions of the local   *)
(* +X (right), +Y (up) and +Z (back) axes.  Scale is a plain ratio.        *)

Quat_IDENTITY == [right |-> <<1, 0, 0>>, up |-> <<0, 1, 0>>, back |-> <<0, 0, 1>>]

\* Transform::from_xyz(x, y, z): identity rotation, unit scale.
Transform_from_xyz(x, y, z) ==
    [translation |-> <<x, y, z>>, rotation |-> Quat_IDENTITY, scale |-> <<1, 1, 1>>]

\* Transform::look_to(direction, up): the local -Z axis points along
\* `direction`; a zero direction falls back to NEG_Z, a zero up to Y, an up
\* parallel to the direction to any orthonormal vector.
LookTo(t, direction, up) ==
    LET d     == TryNormalize(direction)
        back  == IF d = <<>> THEN <<0, 0, 1>> ELSE Neg(d)
        u0    == TryNormalize(up)
        u     == IF u0 = <<>> THEN Vec3_Y ELSE u0
        r0    == TryNormalize(Cross(u, back))
        right == IF r0 = <<>> THEN AnyOrthonormal(u) ELSE r0
        up2   == TryNormalize(Cross(back, right))
    IN  [t EXCEPT !.rotation = [right |-> right, up |-> up2, back |-> back]]

\* Faulty variant: the direction is taken from the target to the camera.
LookingAway(t, target, up) == LookTo(t, Sub(t.translation, target), up)

\* Transform::looking_at(target, up) == look_to(target - translation, up).
LookingAt(t, target, up) == LookTo(t, Sub(target, t.translation), up)

-----------------------------------------------------------------------------
(* Assets and components.                                                  *)

\* Plane3d::default(): normal +Y, half_size 0.5 x 0.5.
Plane3d_default == [normal |-> Vec3_Y, half_size |-> <<5, 5>>]

\* Plane3d::mesh(): a PlaneMeshBuilder over the plane.
PlaneMeshBuilder(plane) == [plane |-> plane, subdivisions |-> 0]

\* PlaneMeshBuilder::size(width, height): half_size = (width, height) / 2.
BuilderSize(builder, width, height) ==
    [builder EXCEPT !.plane.half_size = <<width \div 2, height \div 2>>]

\* Into<Mesh> for the builder: the geometry stored in Assets<Mesh>.
BuildMesh(builder) ==
    [shape |-> "Plane3d", normal |-> builder.plane.normal,
     half_size |-> builder.plane.half_size,
     subdivisions |-> builder.subdivisions]

\* The width and height of a stored plane geometry.
PlaneSize(g) == <<2 * g.half_size[1], 2 * g.half_size[2]>>

\* The geometry setup adds: Plane3d::default().mesh().size(10.0, 10.0).
SetupMesh == BuildMesh(BuilderSize(PlaneMeshBuilder(Plane3d_default), 100, 100))

\* struct CustomMaterial {}: a descriptor with no fields.
CustomMaterial == [type |-> "CustomMaterial"]

SHADER_ASSET_PATH == "shaders/animate_shader.wgsl"

\* Faulty variant: the material falls back to the engine's default shader.
fragment_shader_default == [kind |-> "Default"]

\* CustomMaterial::fragment_shader(): SHADER_ASSET_PATH.into(), a
\* ShaderRef::Path.
fragment_shader == [kind |-> "Path", path |-> SHADER_ASSET_PATH]

\* Faulty variant: translation and axes swapped, (0.5, 0, 0).
MeshTransformSwapped == Transform_from_xyz(5, 0, 0)

\* Transform::from_xyz(0.0, 0.5, 0.0)
MeshTransform == Transform_from_xyz(0, 5, 0)

\* Transform::from_xyz(-2.0, 2.5, 5.0).looking_at(Vec3::ZERO, Vec3::Y)
CameraTransform == LookingAt(Transform_from_xyz(-20, 25, 50), Vec3_ZERO, Vec3_Y)

\* Faulty variant: the mesh component holds Handle::default(), not the handle
\* meshes.add returned.
MeshBundleDefaultHandle(mesh, material) ==
    [Mesh3d |-> 0, MeshMaterial3d |-> material, Transform |-> MeshTransform]

\* The bundle of the mesh entity.
MeshBundle(mesh, material) ==
    [Mesh3d |-> mesh, MeshMaterial3d |-> material, Transform |-> MeshTransform]

\* The bundle of the camera entity; Camera3d::default() carries no data the
\* program sets.
CameraBundle == [Camera3d |-> "default", Transform |-> CameraTransform]

IsMesh(c) == "Mesh3d" \in DOMAIN c /\ "MeshMaterial3d" \in DOMAIN c
IsCamera(c) == "Camera3d" \in DOMAIN c


-----------------------------------------------------------------------------
(* The engine-owned stores, as setup uses them.                            *)

\* Faulty variant: an equal asset already stored is reused, not inserted.
AssetsAddDedup(store, asset) ==
    IF \E i \in 1..Len(store) : store[i] = asset
    THEN [store |-> store,
          handle |-> CHOOSE i \in 1..Len(store) : store[i] = asset]
    ELSE [store |-> Append(store, asset), handle |-> Len(store) + 1]

\* Assets::add(asset): stores the asset under a fresh index and returns the
\* handle to it.
AssetsAdd(store, asset) ==
    [store |-> Append(store, asset), handle |-> Len(store) + 1]

\* Entities::reserve_entity(): a fresh id, distinct from every entity that
\* is alive or was reserved by a queued command.
ReserveEntity(w, queue) ==
    LET used == DOMAIN w \cup {queue[i].entity : i \in 1..Len(queue)}
    IN  Cardinality(used) + 1

\* Faulty variant: the bundle is inserted on a fixed entity per kind.
SpawnFixed(queue, w, bundle) ==
    Append(queue, [entity |-> IF IsCamera(bundle) THEN 2 ELSE 1,
                   bundle |-> bundle])

\* Commands::spawn(bundle): reserves the entity and queues its insertion.
Spawn(queue, w, bundle) ==
    Append(queue, [entity |-> ReserveEntity(w, queue), bundle |-> bundle])

\* Faulty variant: the camera is never spawned.
SetupSpawnsMeshOnly(queue, w, mesh, material) ==
    Spawn(queue, w, MeshBundle(mesh, material))

\* Faulty variant: the camera is spawned twice.
SetupSpawnsTwoCameras(queue, w, mesh, material) ==
    Spawn(Spawn(Spawn(queue, w, MeshBundle(mesh, material)), w, CameraBundle),
          w, CameraBundle)

\* The two commands.spawn calls of setup, in order.
SetupSpawns(queue, w, mesh, material) ==
    Spawn(Spawn(queue, w, MeshBundle(mesh, material)), w, CameraBundle)

\* One queued spawn applied to the world.
Insert(w, c) ==
    [e \in DOMAIN w \cup {c.entity} |-> IF e = c.entity THEN c.bundle ELSE w[e]]

\* The world after the queued commands are applied, in order.
RECURSIVE ApplyAll(_, _)
ApplyAll(w, queue) ==
    IF queue = <<>> THEN w ELSE ApplyAll(Insert(w, Head(queue)), Tail(queue))

\* The entity/command store as a whole: the entities alive or requested.
AllEntities == ApplyAll(world, commands)

\* History: the records of `dom` that `old` does not know were inserted by
\* invocation `run`.
Tag(old, dom, run) ==
    [i \in dom |-> IF i \in DOMAIN old THEN old[i] ELSE run]

-----------------------------------------------------------------------------
(* The system and the host's schedule runner.                              *)

\* fn setup(commands, meshes, materials): the whole system body.
setup ==
    LET m == AssetsAdd(meshes, SetupMesh)
        c == AssetsAdd(materials, CustomMaterial)
        q == SetupSpawns(commands, world, m.handle, c.handle)
        run == setupRuns + 1
    IN  /\ meshes' = m.store
        /\ materials' = c.store
        /\ commands' = q
        /\ world' = world
        /\ setupRuns' = run
        /\ insertedBy' =
             [meshes    |-> Tag(insertedBy.meshes, DOMAIN m.store, run),
              materials |-> Tag(insertedBy.materials, DOMAIN c.store, run),
              entities  |-> Tag(insertedBy.entities,
                                DOMAIN ApplyAll(world, q), run)]

\* Faulty variant: registered to run every frame.
SetupScheduleUpdate == "Update"

\* .add_systems(Startup, setup): the schedule setup is registered in.
SetupSchedule == "Startup"

\* Faulty variant: an animation system registered in Update moves every mesh
\* entity each frame.
RunScheduleSpin(label) ==
    IF label = "Update"
    THEN /\ world' = [e \in DOMAIN world |->
                        IF IsMesh(world[e])
                        THEN [world[e] EXCEPT !.Transform.translation[2] = @ + 1]
                        ELSE world[e]]
         /\ UNCHANGED <<meshes, materials, commands, insertedBy, setupRuns>>
    ELSE IF \E i \in 1..Len(schedules[label]) : schedules[label][i] = "setup"
         THEN setup
         ELSE UNCHANGED storeVars

\* One run of a schedule: the systems main registered under `label`.
RunSchedule(label) ==
    IF \E i \in 1..Len(schedules[label]) : schedules[label][i] = "setup"
    THEN setup
    ELSE UNCHANGED storeVars


-----------------------------------------------------------------------------
(* main: App::new().add_plugins(..).add_systems(Startup, setup).run(), and *)
(* the host's runner behind run().                                         *)

Init ==
    /\ phase = "new"
    /\ plugins = {}
    /\ schedules = [Startup |-> <<>>, Update |-> <<>>]
    /\ meshes = <<>>
    /\ materials = <<>>
    /\ commands = <<>>
    /\ world = <<>>
    /\ insertedBy = [meshes |-> <<>>, materials |-> <<>>, entities |-> <<>>]
    /\ setupRuns = 0
    /\ frame = 0
    /\ elapsed = 0
    /\ shaderQueries = <<>>

\* .add_plugins((DefaultPlugins, MaterialPlugin::<CustomMaterial>::default()))
AddPlugins ==
    /\ phase = "new"
    /\ phase' = "plugins"
    /\ plugins' = plugins \cup {"DefaultPlugins", "MaterialPlugin<CustomMaterial>"}
    /\ UNCHANGED <<schedules, frame, elapsed, shaderQueries>>
    /\ UNCHANGED storeVars

\* .add_systems(Startup, setup)
AddSystems ==
    /\ phase = "plugins"
    /\ phase' = "systems"
    /\ schedules' = [schedules EXCEPT ![SetupSchedule] = Append(@, "setup")]
    /\ UNCHANGED <<plugins, frame, elapsed, shaderQueries>>
    /\ UNCHANGED storeVars

\* .run(): the runner takes over.
Run ==
    /\ phase = "systems"
    /\ phase' = "startup"
    /\ UNCHANGED <<plugins, schedules, frame, elapsed, shaderQueries>>
    /\ UNCHANGED storeVars

\* The runner's first step: the Startup schedule, run once.
RunStartup ==
    /\ phase = "startup"
    /\ RunSchedule("Startup")
    /\ phase' = "update"
    /\ UNCHANGED <<plugins, schedules, frame, elapsed, shaderQueries>>

\* The end of a schedule: the queued commands are applied to the world.
ApplyDeferred ==
    /\ commands # <<>>
    /\ world' = ApplyAll(world, commands)
    /\ commands' = <<>>
    /\ UNCHANGED <<phase, plugins, schedules, meshes, materials, insertedBy,
                   setupRuns, frame, elapsed, shaderQueries>>

\* One frame of the steady-state loop: the Update schedule runs, the global
\* time uniform advances and the frame is rendered.
Frame ==
    /\ phase = "update"
    /\ commands = <<>>
    /\ frame < MaxFrames
    /\ RunSchedule("Update")
    /\ frame' = frame + 1
    /\ \E d \in 1..MaxDelta : elapsed' = elapsed + d
    /\ UNCHANGED <<phase, plugins, schedules, shaderQueries>>

\* The engine (or anyone) asks the material type for its fragment shader;
\* the answer is logged with the state it was given in.
QueryFragmentShader ==
    /\ Len(shaderQueries) < MaxQueries
    /\ shaderQueries' = Append(shaderQueries,
                               [ref |-> fragment_shader, runs |-> setupRuns,
                                frame |-> frame])
    /\ UNCHANGED <<phase, plugins, schedules, frame, elapsed>>
    /\ UNCHANGED storeVars

\* setup invoked again by the host while the application runs.
Reinvoke ==
    /\ phase = "update"
    /\ setupRuns < MaxSetups
    /\ setup
    /\ UNCHANGED <<phase, plugins, schedules, frame, elapsed, shaderQueries>>

Next ==
    \/ AddPlugins
    \/ AddSystems
    \/ Run
    \/ RunStartup
    \/ ApplyDeferred
    \/ Frame
    \/ QueryFragmentShader

\* The program as main runs it.
Spec == Init /\ [][Next]_vars

NextReinvoke == Next \/ Reinvoke

\* The program with setup invoked more than once.
SpecReinvoke == Init /\ [][NextReinvoke]_vars

-----------------------------------------------------------------------------
(* Properties.                                                             *)

MeshEntities(w) == {e \in DOMAIN w : IsMesh(w[e])}
CameraEntities(w) == {e \in DOMAIN w : IsCamera(w[e])}

\* C1: after setup has executed once from an empty world, the entity store
\* holds exactly one mesh entity (with a geometry and a material reference)
\* and exactly one camera entity, and nothing else.
C1_OneMeshOneCamera ==
    setupRuns = 1 =>
        /\ Cardinality(MeshEntities(AllEntities)) = 1
        /\ Cardinality(CameraEntities(AllEntities)) = 1
        /\ MeshEntities(AllEntities) \cap CameraEntities(AllEntities) = {}
        /\ Cardinality(DOMAIN AllEntities) = 2
        /\ (commands = <<>> => world = AllEntities)

C1_Witness ==
    /\ setupRuns = 1
    /\ commands = <<>>
    /\ Cardinality(MeshEntities(world)) = 1
    /\ Cardinality(CameraEntities(world)) = 1

\* C2: after setup the material store holds exactly one CustomMaterial
\* descriptor, and every fragment-shader query, whatever the state it is made
\* in, returns the path "shaders/animate_shader.wgsl".
C2_ShaderPathFixed ==
    /\ setupRuns = 1 => Len(materials) = 1 /\ materials[1] = [type |-> "CustomMaterial"]
    /\ \A i \in 1..Len(shaderQueries) :
          shaderQueries[i].ref = [kind |-> "Path", path |-> "shaders/animate_shader.wgsl"]
    /\ \A i, j \in 1..Len(shaderQueries) : shaderQueries[i].ref = shaderQueries[j].ref

C2_Witness ==
    /\ setupRuns = 1
    /\ Len(materials) = 1
    /\ \E i, j \in 1..Len(shaderQueries) :
          /\ shaderQueries[i].runs = 0 /\ shaderQueries[i].frame = 0
          /\ shaderQueries[j].runs = 1 /\ shaderQueries[j].frame > 0

\* C3: setup runs at most once, no frame is rendered before setup has run
\* and its spawns are applied, and setup never runs once the frame loop has
\* started.
C3_SetupOnceBeforeFrames ==
    /\ [](setupRuns <= 1)
    /\ [](frame > 0 => setupRuns = 1 /\ Cardinality(DOMAIN world) = 2)
    /\ [][(frame' # frame => setupRuns = 1 /\ commands = <<>>)
          /\ (phase = "update" => setupRuns' = setupRuns)]_vars

C3_Witness == frame >= 2 /\ setupRuns = 1 /\ phase = "update"

\* What an entity owns or references: its components and the stored
\* geometry and material its handles resolve to.
EntityData(w, ms, mats, e) ==
    [components |-> w[e],
     geometry |-> IF IsMesh(w[e]) /\ w[e].Mesh3d \in DOMAIN ms
                  THEN <<ms[w[e].Mesh3d]>> ELSE <<>>,
     material |-> IF IsMesh(w[e]) /\ w[e].MeshMaterial3d \in DOMAIN mats
                  THEN <<mats[w[e].MeshMaterial3d]>> ELSE <<>>]

\* C4: a second (or later) invocation of setup leaves the entities the first
\* invocation created, and the geometry and material they reference, as they
\* were.
C4_SecondSetupKeepsFirst ==
    [][(setupRuns >= 1 /\ setupRuns' > setupRuns) =>
          \A e \in DOMAIN AllEntities :
              insertedBy.entities[e] = 1 =>
                  /\ e \in DOMAIN AllEntities'
                  /\ EntityData(AllEntities', meshes', materials', e)
                       = EntityData(AllEntities, meshes, materials, e)]_vars

C4_Witness ==
    /\ setupRuns >= 2
    /\ commands = <<>>
    /\ \E e, c \in DOMAIN world :
          /\ insertedBy.entities[e] = 1 /\ IsMesh(world[e])
          /\ world[e].Mesh3d = 1 /\ world[e].MeshMaterial3d = 1
          /\ insertedBy.entities[c] = 1 /\ IsCamera(world[c])

\* C5 as claimed: one execution of setup performs exactly one mutating
\* operation on each of the three stores.  Every add and every spawn inserts
\* one record, so the operations on a store are counted by its growth.
C5_OneMutationPerStore ==
    [][setupRuns' # setupRuns =>
          /\ Len(meshes') = Len(meshes) + 1
          /\ Len(materials') = Len(materials) + 1
          /\ Len(commands') = Len(commands) + 1]_vars

\* C5 as amended: one execution of setup performs exactly one mutating
\* operation on the geometry store, exactly one on the material store, and
\* exactly two (one spawn per entity) on the entity/command store.
C5_MutationsPerStore ==
    [][setupRuns' # setupRuns =>
          /\ Len(meshes') = Len(meshes) + 1
          /\ Len(materials') = Len(materials) + 1
          /\ Len(commands') = Len(commands) + 2
          /\ Cardinality(DOMAIN AllEntities') = Cardinality(DOMAIN AllEntities) + 2]_vars

C5_Witness ==
    /\ setupRuns = 2
    /\ Len(meshes) = 2 /\ Len(materials) = 2 /\ Len(commands) = 4

C7_CameraFacesOrigin ==
    \A e \in CameraEntities(AllEntities) :
        LET t == AllEntities[e].Transform
            toOrigin == Sub(<<0, 0, 0>>, t.translation)
            forward == Neg(t.rotation.back)
        IN  /\ t.translation = <<-20, 25, 50>>
            /\ Cross(forward, toOrigin) = <<0, 0, 0>>
            /\ Dot(forward, toOrigin) > 0
            /\ Dot(t.rotation.right, <<0, 1, 0>>) = 0
            /\ Dot(t.rotation.up, <<0, 1, 0>>) > 0
            /\ Dot(t.rotation.right, t.rotation.up) = 0
            /\ Dot(t.rotation.right, t.rotation.back) = 0
            /\ Dot(t.rotation.up, t.rotation.back) = 0
            /\ Dot(Cross(t.rotation.right, t.rotation.up), t.rotation.back) > 0

C7_Witness ==
    /\ setupRuns = 1
    /\ commands = <<>>
    /\ \E e \in DOMAIN world :
          IsCamera(world[e]) /\ world[e].Transform.rotation.back = <<-4, 5, 10>>

\* C8: once created, the mesh and the camera entity keep their components,
\* and the geometry and material they reference, in every later step; and
\* once setup's commands are applied nothing touches the three stores.
C8_NeverMutated ==
    [][/\ \A e \in DOMAIN AllEntities :
             /\ e \in DOMAIN AllEntities'
             /\ EntityData(AllEntities', meshes', materials', e)
                  = EntityData(AllEntities, meshes, materials, e)
       /\ (phase = "update" /\ commands = <<>>) =>
             UNCHANGED <<meshes, materials, commands, world>>]_vars

C8_Witness ==
    /\ frame >= 3
    /\ elapsed > frame
    /\ world = ApplyAll(<<>>, SetupSpawns(<<>>, <<>>, 1, 1))

\* The asset a store holds last, if any.
Last(store) == IF store = <<>> THEN <<>> ELSE <<store[Len(store)]>>

\* C9: whatever the stores hold when setup is invoked, it can run, and it
\* performs all four insertions: one geometry, one material, one mesh entity
\* and one camera entity.
C9_SetupAlwaysCompletes ==
    /\ [](phase = "update" /\ setupRuns < MaxSetups => ENABLED Reinvoke)
    /\ [][setupRuns' # setupRuns =>
             /\ Len(meshes') = Len(meshes) + 1
             /\ Last(meshes') = <<SetupMesh>>
             /\ Len(materials') = Len(materials) + 1
             /\ Last(materials') = <<CustomMaterial>>
             /\ Cardinality(MeshEntities(AllEntities'))
                  = Cardinality(MeshEntities(AllEntities)) + 1
             /\ Cardinality(CameraEntities(AllEntities'))
                  = Cardinality(CameraEntities(AllEntities)) + 1]_vars

C9_Witness ==
    /\ setupRuns = 3
    /\ Len(meshes) = 3 /\ Len(materials) = 3
    /\ Cardinality(DOMAIN world) = 2 /\ Len(commands) = 4

\* C10: after n invocations of setup there are n geometries, n materials, n
\* mesh entities and n camera entities; every mesh entity references a stored
\* geometry and a stored material inserted by the invocation that spawned it,
\* no two mesh entities share a geometry or a material, and no camera entity
\* carries a geometry or material reference.
C10_ReferentialIntegrity ==
    LET w == AllEntities IN
    /\ Len(meshes) = setupRuns
    /\ Len(materials) = setupRuns
    /\ Cardinality(MeshEntities(w)) = setupRuns
    /\ Cardinality(CameraEntities(w)) = setupRuns
    /\ \A e \in MeshEntities(w) :
          /\ w[e].Mesh3d \in DOMAIN meshes
          /\ w[e].MeshMaterial3d \in DOMAIN materials
          /\ insertedBy.meshes[w[e].Mesh3d] = insertedBy.entities[e]
          /\ insertedBy.materials[w[e].MeshMaterial3d] = insertedBy.entities[e]
    /\ \A e1, e2 \in MeshEntities(w) :
          e1 # e2 => /\ w[e1].Mesh3d # w[e2].Mesh3d
                     /\ w[e1].MeshMaterial3d # w[e2].MeshMaterial3d
    /\ \A e \in CameraEntities(w) :
          "Mesh3d" \notin DOMAIN w[e] /\ "MeshMaterial3d" \notin DOMAIN w[e]

C10_Witness ==
    /\ setupRuns = 3
    /\ commands = <<>>
    /\ Cardinality(MeshEntities(world)) = 3
    /\ \E e \in MeshEntities(world) : world[e].Mesh3d = 3 /\ insertedBy.entities[e] = 3

=============================================================================
